---- MODULE Spec2Model ----
(***************************************************************************)
(* One run of pRetry (src/src/p-retry.ts) together with its environment:   *)
(* the retried operation `input`, the two user hooks, the clock, the       *)
(* delay timer and the AbortSignal.  Every action is one synchronous       *)
(* segment of the async function, from the completion of one await to the  *)
(* start of the next one (or to the settlement of the returned promise).   *)
(***************************************************************************)
EXTENDS Integers, Sequences, FiniteSets, TLC

\* ------------------------------------------------------------------ bounds
MaxRetries == 2
MaxClock == 1
RandomSteps == 2

MaxDelayAttempts == 3
MaxMinTimeout == 3
MaxFactor == 3
MaxMaxTimeout == 4

\* attempts explored when retries is infinite
MaxAttempts == MaxRetries + 1

\* ------------------------------------------------------- program constants
Infinity == 1000000

\* ------------------------------------------------------------ arithmetic
Min(a, b) == IF a <= b THEN a ELSE b

Max(a, b) == IF a >= b THEN a ELSE b

\* a - b in IEEE arithmetic restricted to integers and +Infinity
Minus(a, b) == IF a = Infinity THEN Infinity ELSE a - b

RECURSIVE Pow(_, _)
Pow(b, n) == IF n = 0 THEN 1 ELSE b * Pow(b, n - 1)

\* Math.round of the rational num/den (den > 0): nearest integer, ties up
MathRound(num, den) == (2 * num + den) \div (2 * den)

\* ---------------------------------------------------------------- values
\* A thrown or returned value.  kind is the runtime class of the value
\* ("NonError" for anything that is not an Error), from names who produced
\* it, attempt the attempt during which it was produced, wrapped the
\* producer of the raw value inside a "Non-error was thrown" wrapper.
Value(kind, message, from, attempt, wrapped) ==
    [kind |-> kind, message |-> message, from |-> from, attempt |-> attempt, wrapped |-> wrapped]

None == Value("none", "", "none", 0, "none")

\* e instanceof Error
IsError(e) == e.kind \in {"Error", "TypeError", "AbortError"}

\* e instanceof AbortError
IsAbortError(e) == e.kind = "AbortError"

\* e instanceof TypeError
IsTypeError(e) == e.kind = "TypeError"

\* new TypeError(`Non-error was thrown: "${e}". You should only throw errors.`)
NonErrorWrapper(e) == Value("TypeError", "Non-error was thrown", "wrapper", e.attempt, e.from)

\* new TypeError('Expected `retries` to be a non-negative number.')
RetriesError == Value("TypeError", "Expected retries to be a non-negative number.", "pRetry", 0, "none")

\* new Error('Retry attempts exhausted without throwing an error.')
ExhaustedError == Value("Error", "Retry attempts exhausted without throwing an error.", "pRetry", 0, "none")

\* AbortError.fromSignal(signal): new AbortError('Aborted by signal',
\* { signal, cause: signal.reason }); wrapped names the holder of the cause
fromSignal(r) == Value("AbortError", "Aborted by signal", "fromSignal", r.attempt, r.from)

\* messages the operation's errors carry in this model
FixtureMessage == "fixture"

TypeErrorMessage == "type-error-fixture"

FetchMessage == "Failed to fetch"

\* message.toLowerCase() on the messages above
ToLowerCase(m) == IF m = "Failed to fetch" THEN "failed to fetch" ELSE m

\* the allow-list of network error messages
NetworkErrorMessages ==
    {"network error", "failed to fetch", "load failed",
     "networkerror when attempting to fetch resource",
     "the internet connection appears to be offline",
     "network request failed", "fetch failed", "terminated"}

isNetworkError(error) == ToLowerCase(error.message) \in NetworkErrorMessages

\* ----------------------------------------------------------- calculateDelay
\* factor is the rational factor[1]/factor[2]; rnd/RandomSteps is the value
\* of Math.random() (0 when randomize is off: the multiplier is then 1).
calculateDelay_ExponentIsAttempt(attempt, options, rnd) ==
    LET random == IF options.randomize THEN RandomSteps + rnd ELSE RandomSteps
        num == random * Max(options.minTimeout, 1) * Pow(options.factor[1], attempt)
        den == RandomSteps * Pow(options.factor[2], attempt)
        timeout == MathRound(num, den)
    IN  Min(timeout, options.maxTimeout)

calculateDelay_Unclamped(attempt, options, rnd) ==
    LET random == IF options.randomize THEN RandomSteps + rnd ELSE RandomSteps
        num == random * Max(options.minTimeout, 1) * Pow(options.factor[1], attempt - 1)
        den == RandomSteps * Pow(options.factor[2], attempt - 1)
    IN  MathRound(num, den)

calculateDelay_NoJitter(attempt, options, rnd) ==
    LET num == Max(options.minTimeout, 1) * Pow(options.factor[1], attempt - 1)
        den == Pow(options.factor[2], attempt - 1)
        timeout == MathRound(num, den)
    IN  Min(timeout, options.maxTimeout)

calculateDelay(attempt, options, rnd) ==
    LET random == IF options.randomize THEN RandomSteps + rnd ELSE RandomSteps
        num == random * Max(options.minTimeout, 1) * Pow(options.factor[1], attempt - 1)
        den == RandomSteps * Pow(options.factor[2], attempt - 1)
        timeout == MathRound(num, den)
    IN  Min(timeout, options.maxTimeout)

\* ------------------------------------------------------- createRetryContext
createRetryContext_CountsFirstAttempt(err, attempt, retries) ==
    [error |-> err, attemptNumber |-> attempt, retriesLeft |-> Minus(retries, attempt)]

createRetryContext(err, attempt, retries) ==
    [error |-> err, attemptNumber |-> attempt, retriesLeft |-> Minus(retries, attempt - 1)]

NoContext == [error |-> None, attemptNumber |-> 0, retriesLeft |-> 0]

\* ---------------------------------------------------------------- options
Factors == {<<0, 1>>, <<2, 1>>}

\* every field as pRetry merges it; the two hooks are either both the
\* defaults or both supplied by the caller
Options ==
    {o \in [retries : {-1, Infinity} \cup (0 .. MaxRetries),
            factor : Factors,
            minTimeout : {0, 2},
            maxTimeout : {1, Infinity},
            maxRetryTime : {0, 1, Infinity},
            randomize : BOOLEAN,
            onFailedAttempt : {"default", "custom"},
            shouldRetry : {"default", "custom"},
            signal : BOOLEAN,
            unref : {FALSE}] :
        (o.onFailedAttempt = "default") <=> (o.shouldRetry = "default")}

VARIABLES
    input,           \* the function pRetry was given
    other,           \* the locals of a second, suspended run of pRetry
    mergedOptions,   \* the merged options of the run
    pc,              \* the await the async function is suspended at
    exit,            \* the statement that settled the returned promise
    attemptNumber,   \* let attemptNumber
    startTime,       \* const startTime
    currentTime,     \* const currentTime of the current catch block
    error,           \* const error of the current catch block
    context,         \* const context of the current catch block
    result,          \* const result of the current try block
    outcome,         \* settlement of the promise pRetry returned
    now,             \* Date.now()
    aborted,         \* signal.aborted
    reason,          \* signal.reason
    timer,           \* the setTimeout of the current delay
    listeners,       \* 'abort' listeners registered on the signal
    calls,           \* what the caller's function was invoked with, in order
    thrown,          \* what each finished invocation of input produced
    hookCalls,       \* contexts onFailedAttempt was invoked with, in order
    hookEnds,        \* how each finished onFailedAttempt call ended
    shouldCalls,     \* contexts shouldRetry was invoked with, in order
    verdicts,        \* how each finished shouldRetry call ended
    timers           \* the timers started, in order

vars == <<input, other, mergedOptions, pc, exit, attemptNumber, startTime, currentTime, error, context,
          result, outcome, now, aborted, reason, timer, listeners, calls, thrown, hookCalls,
          hookEnds, shouldCalls, verdicts, timers>>

NoTimer == [pending |-> FALSE, due |-> 0, delay |-> 0, unref |-> FALSE]

Pending == [state |-> "pending", value |-> None]

\* input when the caller passes its operation to pRetry directly
Operation == [kind |-> "operation", args |-> <<>>]

\* other when pRetry is running once only
NoRun == [pc |-> "none"]

Init ==
    /\ input = Operation
    /\ other = NoRun
    /\ mergedOptions \in Options
    /\ pc = "idle"
    /\ exit = "none"
    /\ attemptNumber = 0
    /\ startTime = 0
    /\ currentTime = 0
    /\ error = None
    /\ context = NoContext
    /\ result = None
    /\ outcome = Pending
    /\ now = 0
    /\ aborted = FALSE
    /\ reason = None
    /\ timer = NoTimer
    /\ listeners = 0
    /\ calls = <<>>
    /\ thrown = <<>>
    /\ hookCalls = <<>>
    /\ hookEnds = <<>>
    /\ shouldCalls = <<>>
    /\ verdicts = <<>>
    /\ timers = <<>>

\* ------------------------------------------------------------ environment
\* what input may throw or reject with during attempt n
Throwables(n) ==
    {Value("Error", FixtureMessage, "input", n, "none"),
     Value("TypeError", TypeErrorMessage, "input", n, "none"),
     Value("TypeError", FetchMessage, "input", n, "none"),
     Value("AbortError", "stop", "input", n, "none"),
     Value("NonError", "foo", "input", n, "none")}

\* what attempt n of input resolves with
Returned(n) == Value("value", "", "input", n, "none")

\* what controller.abort(reason) may be called with
Reasons ==
    {Value("Error", "reason", "signal", 0, "none"),
     Value("AbortError", "reason", "signal", 0, "none"),
     Value("NonError", "reason", "signal", 0, "none")}

\* what a hook may throw during the catch block of attempt n
HookError(hook, n) == Value("Error", "thrown from hook", hook, n, "none")

\* the entry of the log `thrown` for a value input threw
ThrownAs(e) == IF e.kind = "TypeError" /\ e.message = FetchMessage THEN "NetworkError" ELSE e.kind

\* -------------------------------------------------------------- the engine
ThrowIfAbortedThrows_Never == FALSE

\* signal?.throwIfAborted() throws (it throws signal.reason)
ThrowIfAbortedThrows == mergedOptions.signal /\ aborted

\* the promise returned by pRetry rejects with e, thrown by statement where
Reject(e, where) ==
    /\ pc' = "done"
    /\ exit' = where
    /\ outcome' = [state |-> "rejected", value |-> e]

Fulfil_Undefined(v) ==
    /\ pc' = "done"
    /\ exit' = "return"
    /\ outcome' = [state |-> "fulfilled", value |-> None]

\* return result: the promise returned by pRetry fulfils with v
Fulfil(v) ==
    /\ pc' = "done"
    /\ exit' = "return"
    /\ outcome' = [state |-> "fulfilled", value |-> v]

CaughtError_Raw(e) == e

\* const error = e instanceof Error ? e : new TypeError(...)
CaughtError(e) == IF IsError(e) THEN e ELSE NonErrorWrapper(e)

IsFatal_NoAbortError(e, err) == IsTypeError(e) /\ ~isNetworkError(err)

IsFatal_AnyTypeError(e, err) == IsAbortError(e) \/ IsTypeError(e)

IsFatal_WrapperIsFatal(e, err) == IsAbortError(e) \/ (IsTypeError(err) /\ ~isNetworkError(err))

\* the condition under which the catch block rethrows e at once
IsFatal(e, err) == IsAbortError(e) \/ (IsTypeError(e) /\ ~isNetworkError(err))

Catch_SkipHookOnLast(e, n) ==
    LET err == CaughtError(e)
        ctx == createRetryContext(err, n, mergedOptions.retries)
    IN  IF IsFatal(e, err)
        THEN /\ Reject(e, "fatal")
             /\ UNCHANGED <<error, context, hookCalls>>
        ELSE IF n >= mergedOptions.retries + 1
        THEN /\ Reject(err, "noRetry")
             /\ error' = err
             /\ context' = ctx
             /\ UNCHANGED hookCalls
        ELSE /\ error' = err
             /\ context' = ctx
             /\ hookCalls' = Append(hookCalls, ctx)
             /\ pc' = "onFailedAttempt"
             /\ UNCHANGED <<exit, outcome>>

\* catch (e) during attempt n, up to the await of onFailedAttempt
Catch(e, n) ==
    LET err == CaughtError(e)
        ctx == createRetryContext(err, n, mergedOptions.retries)
    IN  IF IsFatal(e, err)
        THEN /\ Reject(e, "fatal")
             /\ UNCHANGED <<error, context, hookCalls>>
        ELSE /\ error' = err
             /\ context' = ctx
             /\ hookCalls' = Append(hookCalls, ctx)
             /\ pc' = "onFailedAttempt"
             /\ UNCHANGED <<exit, outcome>>

InputArgument_ZeroBased(n) == n - 1

\* the argument of input(attemptNumber) when attemptNumber is n
InputArgument(n) == n

Forwarded_WithAttemptNumber(args, n) == Append(args, n)

\* () => fn(...args): what fn is called with when pRetry calls input(n)
Forwarded(args, n) == args

\* what the caller's function is called with by input(attemptNumber)
Received(n) ==
    IF input.kind = "makeRetriable"
    THEN Forwarded(input.args, InputArgument(n))
    ELSE InputArgument(n)

\* one iteration of the loop body from attemptNumber++ to the await of input
Attempt(n) ==
    /\ n <= MaxAttempts
    /\ attemptNumber' = n
    /\ IF ThrowIfAbortedThrows
       THEN /\ Catch(reason, n)
            /\ UNCHANGED calls
       ELSE /\ calls' = Append(calls, Received(n))
            /\ pc' = "input"
            /\ UNCHANGED <<exit, error, context, hookCalls, outcome>>

\* the while condition, then the loop body or the statement after the loop
Loop ==
    IF attemptNumber < mergedOptions.retries + 1
    THEN Attempt(attemptNumber + 1)
    ELSE /\ Reject(ExhaustedError, "exhausted")
         /\ UNCHANGED <<attemptNumber, calls, error, context, hookCalls>>

AfterDelay_NoRecheck == Loop

\* the throwIfAborted that ends the catch block, then the next iteration
AfterDelay ==
    IF ThrowIfAbortedThrows
    THEN /\ Reject(reason, "throwIfAborted")
         /\ UNCHANGED <<attemptNumber, calls, error, context, hookCalls>>
    ELSE Loop

InvalidRetries_Never == FALSE

\* typeof options.retries === 'number' && mergedOptions.retries < 0
InvalidRetries == mergedOptions.retries < 0

Call_NoPreCheck ==
    /\ pc = "idle"
    /\ IF InvalidRetries
       THEN /\ Reject(RetriesError, "validate")
            /\ UNCHANGED <<attemptNumber, calls, error, context, hookCalls, startTime>>
       ELSE /\ startTime' = now
            /\ Loop
    /\ UNCHANGED <<input, other, mergedOptions, currentTime, result, now, aborted, reason, timer, listeners,
                   thrown, hookEnds, shouldCalls, verdicts, timers>>

\* pRetry(input, options) is called
Call ==
    /\ pc = "idle"
    /\ IF InvalidRetries
       THEN /\ Reject(RetriesError, "validate")
            /\ UNCHANGED <<attemptNumber, calls, error, context, hookCalls, startTime>>
       ELSE IF ThrowIfAbortedThrows
       THEN /\ Reject(reason, "preAborted")
            /\ UNCHANGED <<attemptNumber, calls, error, context, hookCalls, startTime>>
       ELSE /\ startTime' = now
            /\ Loop
    /\ UNCHANGED <<input, other, mergedOptions, currentTime, result, now, aborted, reason, timer, listeners,
                   thrown, hookEnds, shouldCalls, verdicts, timers>>

InputReturns_NoRecheck ==
    /\ pc = "input"
    /\ result' = Returned(attemptNumber)
    /\ thrown' = Append(thrown, "value")
    /\ Fulfil(result')
    /\ UNCHANGED <<input, other, mergedOptions, attemptNumber, startTime, currentTime, error, context, now,
                   aborted, reason, timer, listeners, calls, hookCalls, hookEnds, shouldCalls,
                   verdicts, timers>>

\* the promise returned by input resolves
InputReturns ==
    /\ pc = "input"
    /\ result' = Returned(attemptNumber)
    /\ thrown' = Append(thrown, "value")
    /\ IF ThrowIfAbortedThrows
       THEN Catch(reason, attemptNumber)
       ELSE /\ Fulfil(result')
            /\ UNCHANGED <<error, context, hookCalls>>
    /\ UNCHANGED <<input, other, mergedOptions, attemptNumber, startTime, currentTime, now, aborted, reason,
                   timer, listeners, calls, hookEnds, shouldCalls, verdicts, timers>>

\* input throws, or the promise it returned rejects
InputThrows ==
    /\ pc = "input"
    /\ \E e \in Throwables(attemptNumber) :
          /\ thrown' = Append(thrown, ThrownAs(e))
          /\ Catch(e, attemptNumber)
    /\ UNCHANGED <<input, other, mergedOptions, attemptNumber, startTime, currentTime, result, now, aborted,
                   reason, timer, listeners, calls, hookEnds, shouldCalls, verdicts, timers>>

MaxRetryTimeExceeded_Strict(time) == time - startTime > mergedOptions.maxRetryTime

\* currentTime - startTime >= maxRetryTime
MaxRetryTimeExceeded(time) == time - startTime >= mergedOptions.maxRetryTime

RetriesExhausted_InfiniteIsNone(n) ==
    n >= (IF mergedOptions.retries = Infinity THEN 0 ELSE mergedOptions.retries) + 1

RetriesExhausted_Never(n) == FALSE

RetriesExhausted_OffByOne(n) == n >= mergedOptions.retries

\* attemptNumber >= mergedOptions.retries + 1
RetriesExhausted(n) == n >= mergedOptions.retries + 1

Rethrown_Generic == ExhaustedError

\* throw error: what the catch block throws when it does not retry
Rethrown == error

OnFailedAttemptReturns_AlwaysAsks ==
    /\ pc = "onFailedAttempt"
    /\ hookEnds' = Append(hookEnds, "return")
    /\ currentTime' = now
    /\ shouldCalls' = Append(shouldCalls, context)
    /\ pc' = "shouldRetry"
    /\ UNCHANGED <<exit, outcome>>
    /\ UNCHANGED <<input, other, mergedOptions, attemptNumber, startTime, error, context, result, now, aborted,
                   reason, timer, listeners, calls, thrown, hookCalls, verdicts, timers>>

\* onFailedAttempt returns, or the promise it returned resolves
OnFailedAttemptReturns ==
    /\ pc = "onFailedAttempt"
    /\ hookEnds' = Append(hookEnds, "return")
    /\ currentTime' = now
    /\ IF MaxRetryTimeExceeded(now) \/ RetriesExhausted(attemptNumber)
       THEN /\ Reject(Rethrown, "noRetry")
            /\ UNCHANGED shouldCalls
       ELSE /\ shouldCalls' = Append(shouldCalls, context)
            /\ pc' = "shouldRetry"
            /\ UNCHANGED <<exit, outcome>>
    /\ UNCHANGED <<input, other, mergedOptions, attemptNumber, startTime, error, context, result, now, aborted,
                   reason, timer, listeners, calls, thrown, hookCalls, verdicts, timers>>

OnFailedAttemptThrows_Swallowed ==
    /\ pc = "onFailedAttempt"
    /\ mergedOptions.onFailedAttempt = "custom"
    /\ hookEnds' = Append(hookEnds, "throw")
    /\ Reject(error, "onFailedAttempt")
    /\ UNCHANGED <<input, other, mergedOptions, attemptNumber, startTime, currentTime, error, context, result,
                   now, aborted, reason, timer, listeners, calls, thrown, hookCalls,
                   shouldCalls, verdicts, timers>>

\* onFailedAttempt throws, or the promise it returned rejects
OnFailedAttemptThrows ==
    /\ pc = "onFailedAttempt"
    /\ mergedOptions.onFailedAttempt = "custom"
    /\ hookEnds' = Append(hookEnds, "throw")
    /\ Reject(HookError("onFailedAttempt", attemptNumber), "onFailedAttempt")
    /\ UNCHANGED <<input, other, mergedOptions, attemptNumber, startTime, currentTime, error, context, result,
                   now, aborted, reason, timer, listeners, calls, thrown, hookCalls,
                   shouldCalls, verdicts, timers>>

FinalDelay_Unclamped(delayTime, timeLeft) == delayTime

\* const finalDelay = Math.min(delayTime, timeLeft)
FinalDelay(delayTime, timeLeft) == Min(delayTime, timeLeft)

Vetoed_Ignored(b) == FALSE

\* !(await mergedOptions.shouldRetry(context)) when shouldRetry resolved with b
Vetoed(b) == ~b

ShouldRetryReturns_DelayNotAwaited ==
    /\ pc = "shouldRetry"
    /\ \E b \in IF mergedOptions.shouldRetry = "default" THEN {TRUE} ELSE BOOLEAN,
          rnd \in IF mergedOptions.randomize THEN 0 .. (RandomSteps - 1) ELSE {0} :
          LET delayTime == calculateDelay(attemptNumber, mergedOptions, rnd)
              timeLeft == Minus(mergedOptions.maxRetryTime, currentTime - startTime)
              finalDelay == FinalDelay(delayTime, timeLeft)
          IN  /\ verdicts' = Append(verdicts, IF b THEN "true" ELSE "false")
              /\ IF Vetoed(b)
                 THEN /\ Reject(Rethrown, "noRetry")
                      /\ UNCHANGED <<attemptNumber, calls, error, context, hookCalls, timer,
                                     listeners, timers>>
                 ELSE IF timeLeft <= 0
                 THEN /\ Reject(error, "timeLeft")
                      /\ UNCHANGED <<attemptNumber, calls, error, context, hookCalls, timer,
                                     listeners, timers>>
                 ELSE IF finalDelay > 0
                 THEN /\ timer' = [pending |-> TRUE, due |-> now + finalDelay,
                                   delay |-> finalDelay, unref |-> mergedOptions.unref]
                      /\ listeners' = IF mergedOptions.signal THEN listeners + 1 ELSE listeners
                      /\ timers' = Append(timers, [attempt |-> attemptNumber, delay |-> finalDelay])
                      /\ AfterDelay
                 ELSE /\ AfterDelay
                      /\ UNCHANGED <<timer, listeners, timers>>
    /\ UNCHANGED <<input, other, mergedOptions, startTime, currentTime, result, now, aborted, reason, thrown,
                   hookEnds, shouldCalls>>

\* shouldRetry returns b, or the promise it returned resolves with b
ShouldRetryReturns ==
    /\ pc = "shouldRetry"
    /\ \E b \in IF mergedOptions.shouldRetry = "default" THEN {TRUE} ELSE BOOLEAN,
          rnd \in IF mergedOptions.randomize THEN 0 .. (RandomSteps - 1) ELSE {0} :
          LET delayTime == calculateDelay(attemptNumber, mergedOptions, rnd)
              timeLeft == Minus(mergedOptions.maxRetryTime, currentTime - startTime)
              finalDelay == FinalDelay(delayTime, timeLeft)
          IN  /\ verdicts' = Append(verdicts, IF b THEN "true" ELSE "false")
              /\ IF Vetoed(b)
                 THEN /\ Reject(Rethrown, "noRetry")
                      /\ UNCHANGED <<attemptNumber, calls, error, context, hookCalls, timer,
                                     listeners, timers>>
                 ELSE IF timeLeft <= 0
                 THEN /\ Reject(error, "timeLeft")
                      /\ UNCHANGED <<attemptNumber, calls, error, context, hookCalls, timer,
                                     listeners, timers>>
                 ELSE IF finalDelay > 0
                 THEN /\ timer' = [pending |-> TRUE, due |-> now + finalDelay,
                                   delay |-> finalDelay, unref |-> mergedOptions.unref]
                      /\ listeners' = IF mergedOptions.signal THEN listeners + 1 ELSE listeners
                      /\ timers' = Append(timers, [attempt |-> attemptNumber, delay |-> finalDelay])
                      /\ pc' = "delay"
                      /\ UNCHANGED <<exit, attemptNumber, calls, error, context, hookCalls,
                                     outcome>>
                 ELSE /\ AfterDelay
                      /\ UNCHANGED <<timer, listeners, timers>>
    /\ UNCHANGED <<input, other, mergedOptions, startTime, currentTime, result, now, aborted, reason, thrown,
                   hookEnds, shouldCalls>>

ShouldRetryThrows_AsFalse ==
    /\ pc = "shouldRetry"
    /\ mergedOptions.shouldRetry = "custom"
    /\ verdicts' = Append(verdicts, "throw")
    /\ Reject(error, "shouldRetry")
    /\ UNCHANGED <<input, other, mergedOptions, attemptNumber, startTime, currentTime, error, context, result,
                   now, aborted, reason, timer, listeners, calls, thrown, hookCalls, hookEnds,
                   shouldCalls, timers>>

\* shouldRetry throws, or the promise it returned rejects
ShouldRetryThrows ==
    /\ pc = "shouldRetry"
    /\ mergedOptions.shouldRetry = "custom"
    /\ verdicts' = Append(verdicts, "throw")
    /\ Reject(HookError("shouldRetry", attemptNumber), "shouldRetry")
    /\ UNCHANGED <<input, other, mergedOptions, attemptNumber, startTime, currentTime, error, context, result,
                   now, aborted, reason, timer, listeners, calls, thrown, hookCalls, hookEnds,
                   shouldCalls, timers>>

TimerFires_Unresolved ==
    /\ pc = "delay"
    /\ timer.pending
    /\ now' = Max(now, timer.due)
    /\ timer' = [timer EXCEPT !.pending = FALSE]
    /\ UNCHANGED <<input, other, mergedOptions, pc, exit, attemptNumber, startTime, currentTime,
                   error, context, result, outcome, aborted, reason, listeners, calls, thrown,
                   hookCalls, hookEnds, shouldCalls, verdicts, timers>>

\* the delay's setTimeout callback runs: the delay promise resolves
TimerFires ==
    /\ pc = "delay"
    /\ timer.pending
    /\ now' = Max(now, timer.due)
    /\ timer' = [timer EXCEPT !.pending = FALSE]
    /\ AfterDelay
    /\ UNCHANGED <<input, other, mergedOptions, startTime, currentTime, result, aborted, reason, listeners,
                   thrown, hookEnds, shouldCalls, verdicts, timers>>

Abort_NoListener ==
    /\ mergedOptions.signal
    /\ ~aborted
    /\ \E r \in Reasons :
          /\ aborted' = TRUE
          /\ reason' = r
    /\ UNCHANGED <<input, other, mergedOptions, pc, exit, attemptNumber, startTime, currentTime, error,
                   context, result, outcome, now, timer, listeners, calls, thrown, hookCalls,
                   hookEnds, shouldCalls, verdicts, timers>>

Abort_NoClearTimeout ==
    /\ mergedOptions.signal
    /\ ~aborted
    /\ \E r \in Reasons :
          /\ aborted' = TRUE
          /\ reason' = r
          /\ listeners' = 0
          /\ IF pc = "delay" /\ listeners > 0
             THEN Reject(r, "listener")
             ELSE UNCHANGED <<pc, exit, outcome>>
    /\ UNCHANGED <<input, other, mergedOptions, attemptNumber, startTime, currentTime, error, context, result,
                   now, timer, calls, thrown, hookCalls, hookEnds, shouldCalls, verdicts, timers>>

Abort_StaleListenerRejects ==
    /\ mergedOptions.signal
    /\ ~aborted
    /\ \E r \in Reasons :
          /\ aborted' = TRUE
          /\ reason' = r
          /\ listeners' = 0
          /\ IF listeners > 0
             THEN /\ timer' = [timer EXCEPT !.pending = FALSE]
                  /\ Reject(r, "listener")
             ELSE UNCHANGED <<timer, pc, exit, outcome>>
    /\ UNCHANGED <<input, other, mergedOptions, attemptNumber, startTime, currentTime, error, context, result,
                   now, calls, thrown, hookCalls, hookEnds, shouldCalls, verdicts, timers>>

\* controller.abort(r): the signal's 'abort' listeners run once and are dropped
Abort ==
    /\ mergedOptions.signal
    /\ ~aborted
    /\ \E r \in Reasons :
          /\ aborted' = TRUE
          /\ reason' = r
          /\ listeners' = 0
          /\ IF pc = "delay" /\ listeners > 0
             THEN /\ timer' = [timer EXCEPT !.pending = FALSE]
                  /\ Reject(r, "listener")
             ELSE UNCHANGED <<timer, pc, exit, outcome>>
    /\ UNCHANGED <<input, other, mergedOptions, attemptNumber, startTime, currentTime, error, context, result,
                   now, calls, thrown, hookCalls, hookEnds, shouldCalls, verdicts, timers>>

\* the clock advances while the run is suspended
Tick ==
    /\ pc \in {"input", "onFailedAttempt", "shouldRetry", "delay"}
    /\ now < MaxClock
    /\ pc = "delay" => now + 1 < timer.due
    /\ now' = now + 1
    /\ UNCHANGED <<input, other, mergedOptions, pc, exit, attemptNumber, startTime, currentTime, error,
                   context, result, outcome, aborted, reason, timer, listeners, calls, thrown,
                   hookCalls, hookEnds, shouldCalls, verdicts, timers>>

Next ==
    \/ Call
    \/ InputReturns
    \/ InputThrows
    \/ OnFailedAttemptReturns
    \/ OnFailedAttemptThrows
    \/ ShouldRetryReturns
    \/ ShouldRetryThrows
    \/ TimerFires
    \/ Abort
    \/ Tick

Spec == Init /\ [][Next]_vars

\* ------------------------------------------------------------- properties
Last(s) == s[Len(s)]

\* the kinds of thrown values the catch block retries
Retriable == {"Error", "NetworkError", "NonError"}

\* the values input can have thrown during attempt n when the log says kind
ThrownValues(n, kind) == {v \in Throwables(n) : ThrownAs(v) = kind}

\* no entry of the log (of contexts or timers) belongs to attempt n
NoneFor(log, n) ==
    \A i \in DOMAIN log :
        (IF "attempt" \in DOMAIN log[i] THEN log[i].attempt ELSE log[i].attemptNumber) /= n

Rejected(e) == [state |-> "rejected", value |-> e]

C1_Pre ==
    /\ mergedOptions.retries \in 0 .. MaxRetries
    /\ ~mergedOptions.signal
    /\ mergedOptions.maxRetryTime = Infinity
    /\ mergedOptions.onFailedAttempt = "default"
    /\ mergedOptions.shouldRetry = "default"
    /\ \A i \in DOMAIN thrown : thrown[i] = "Error"

\* C1: with finite retries = N, no signal, unlimited maxRetryTime and the
\* default hooks, an operation that fails every time with an ordinary error
\* is invoked at most N+1 times, the run rejects once the (N+1)-th failure
\* has been observed, and it has then been invoked exactly N+1 times.
C1_AlwaysFailingInvokedNPlusOneTimes ==
    C1_Pre =>
        /\ Len(calls) <= mergedOptions.retries + 1
        /\ Len(hookEnds) = mergedOptions.retries + 1 => pc = "done"
        /\ pc = "done" =>
              /\ Len(calls) = mergedOptions.retries + 1
              /\ outcome.state = "rejected"

C1_Witness ==
    /\ C1_Pre
    /\ pc = "done"
    /\ mergedOptions.retries = MaxRetries
    /\ Len(calls) = MaxRetries + 1
    /\ outcome.state = "rejected"

\* C2: when attempt k returns normally and the signal was never aborted, the
\* run is settled: fulfilled with the value attempt k returned, after exactly
\* k invocations, all earlier attempts having failed retriably.
C2_SuccessOnAttemptKFulfils ==
    (thrown /= <<>> /\ Last(thrown) = "value" /\ ~aborted) =>
        /\ pc = "done"
        /\ outcome = [state |-> "fulfilled", value |-> Returned(Len(thrown))]
        /\ Len(calls) = Len(thrown)
        /\ Len(thrown) <= mergedOptions.retries + 1
        /\ \A i \in 1 .. (Len(thrown) - 1) : thrown[i] \in Retriable

C2_Witness ==
    /\ outcome.state = "fulfilled"
    /\ thrown = <<"Error", "NetworkError", "value">>
    /\ Len(calls) = 3

\* C3: the k-th invocation of input receives k, and input is never invoked
\* more than retries + 1 times.
C3_AttemptNumbersCountFromOne ==
    /\ \A i \in DOMAIN calls : calls[i] = i
    /\ Len(calls) <= mergedOptions.retries + 1

C3_Witness ==
    /\ mergedOptions.retries = 2
    /\ calls = <<1, 2, 3>>

\* C4: an AbortError thrown by attempt k ends the run at k invocations with
\* that very AbortError; neither hook is invoked and no timer is started for
\* attempt k.
C4_AbortErrorStopsAtOnce ==
    (thrown /= <<>> /\ Last(thrown) = "AbortError") =>
        LET k == Len(thrown) IN
        /\ pc = "done"
        /\ outcome = Rejected(Value("AbortError", "stop", "input", k, "none"))
        /\ Len(calls) = k
        /\ NoneFor(hookCalls, k)
        /\ NoneFor(shouldCalls, k)
        /\ NoneFor(timers, k)
        /\ ~timer.pending

C4_Witness ==
    /\ thrown = <<"Error", "AbortError">>
    /\ mergedOptions.retries = Infinity
    /\ mergedOptions.maxRetryTime = Infinity
    /\ pc = "done"

\* C5: a TypeError thrown by attempt k that is not a network error ends the
\* run at attempt k, is rejected unchanged and reaches no hook; a network
\* TypeError is passed to onFailedAttempt in the context of attempt k and
\* the run stops on it only for the reasons an ordinary error stops it.
C5_TypeErrorFatalUnlessNetworkError ==
    /\ (thrown /= <<>> /\ Last(thrown) = "TypeError") =>
          LET k == Len(thrown) IN
          /\ pc = "done"
          /\ exit = "fatal"
          /\ outcome = Rejected(Value("TypeError", TypeErrorMessage, "input", k, "none"))
          /\ Len(calls) = k
          /\ NoneFor(hookCalls, k)
          /\ NoneFor(shouldCalls, k)
    /\ (thrown /= <<>> /\ Last(thrown) = "NetworkError") =>
          LET k == Len(thrown) IN
          /\ hookCalls /= <<>>
          /\ Last(hookCalls) = createRetryContext(Value("TypeError", FetchMessage, "input", k, "none"),
                                                  k, mergedOptions.retries)
          /\ exit /= "fatal"
          /\ exit = "noRetry" =>
                \/ RetriesExhausted(k)
                \/ MaxRetryTimeExceeded(currentTime)
                \/ (verdicts /= <<>> /\ Last(verdicts) = "false")

C5_Witness ==
    /\ thrown = <<"NetworkError", "TypeError">>
    /\ Len(hookCalls) = 1
    /\ exit = "fatal"

\* C6: when shouldRetry resolves to false for attempt k, the run is settled:
\* rejected with the error of attempt k, input not invoked again and no
\* timer started for attempt k.
C6_ShouldRetryFalseStops ==
    (verdicts /= <<>> /\ Last(verdicts) = "false") =>
        LET ctx == Last(shouldCalls)
            k == ctx.attemptNumber
        IN  /\ pc = "done"
            /\ Len(shouldCalls) = Len(verdicts)
            /\ ctx = Last(hookCalls)
            /\ outcome = Rejected(ctx.error)
            /\ Last(thrown) \in Retriable =>
                  \E v \in ThrownValues(k, Last(thrown)) : ctx.error = CaughtError(v)
            /\ Len(calls) = k
            /\ NoneFor(timers, k)
            /\ ~timer.pending

C6_Witness ==
    /\ verdicts = <<"true", "false">>
    /\ mergedOptions.retries = Infinity
    /\ mergedOptions.maxRetryTime = Infinity
    /\ pc = "done"

\* C7: when onFailedAttempt throws, the run is settled: rejected with the
\* hook's error and not with the operation's, input not invoked again,
\* shouldRetry not invoked and no timer started for that attempt.
C7_OnFailedAttemptThrowAborts ==
    (hookEnds /= <<>> /\ Last(hookEnds) = "throw") =>
        LET k == Last(hookCalls).attemptNumber IN
        /\ pc = "done"
        /\ Len(hookEnds) = Len(hookCalls)
        /\ outcome = Rejected(HookError("onFailedAttempt", k))
        /\ outcome.value /= Last(hookCalls).error
        /\ Len(calls) = k
        /\ NoneFor(shouldCalls, k)
        /\ NoneFor(timers, k)
        /\ ~timer.pending

C7_Witness ==
    /\ hookEnds = <<"return", "throw">>
    /\ Len(calls) = 2
    /\ mergedOptions.retries = Infinity
    /\ pc = "done"

\* C8: when shouldRetry throws, the run is settled: rejected with the error
\* shouldRetry threw and not with the operation's, and input is not invoked
\* again.
C8_ShouldRetryThrowAborts ==
    (verdicts /= <<>> /\ Last(verdicts) = "throw") =>
        LET k == Last(shouldCalls).attemptNumber IN
        /\ pc = "done"
        /\ Len(shouldCalls) = Len(verdicts)
        /\ outcome = Rejected(HookError("shouldRetry", k))
        /\ outcome.value /= Last(shouldCalls).error
        /\ Len(calls) = k
        /\ NoneFor(timers, k)

C8_Witness ==
    /\ verdicts = <<"true", "throw">>
    /\ Len(calls) = 2
    /\ mergedOptions.retries = Infinity
    /\ pc = "done"

\* C9: a run that stops at the no-retry decision (retries exhausted, time
\* budget spent or shouldRetry false) rejects with the classified error of
\* the last attempt made: one error, the one caught in that attempt, from
\* the operation and not from a hook.
C9_RejectsWithLastAttemptsError ==
    exit \in {"noRetry", "timeLeft"} =>
        LET k == Len(calls) IN
        /\ hookCalls /= <<>>
        /\ Last(hookCalls).attemptNumber = k
        /\ outcome = Rejected(Last(hookCalls).error)
        /\ IsError(outcome.value)
        /\ outcome.value.from \notin {"onFailedAttempt", "shouldRetry", "pRetry"}
        /\ Last(thrown) /= "value" =>
              \E v \in ThrownValues(k, Last(thrown)) : outcome.value = CaughtError(v)
        /\ Last(thrown) = "value" => outcome.value = CaughtError(reason)

C9_Witness ==
    /\ exit = "noRetry"
    /\ thrown = <<"Error", "NetworkError", "NonError">>
    /\ outcome.value = NonErrorWrapper(Value("NonError", "foo", "input", 3, "none"))

\* C10: every attempt that fails retriably has exactly one onFailedAttempt
\* call, made with that attempt's context; the call has returned before
\* shouldRetry is invoked, a timer is started or the error is rethrown, also
\* on the last allowed attempt and when the time budget is spent; every
\* attempt k >= 2 follows a returned onFailedAttempt call for attempt k-1.
C10_OnFailedAttemptAlwaysRunsFirst ==
    /\ \A i \in DOMAIN thrown :
          thrown[i] \in Retriable =>
              \E v \in ThrownValues(i, thrown[i]) :
                  /\ i \in DOMAIN hookCalls
                  /\ hookCalls[i] = createRetryContext(CaughtError(v), i, mergedOptions.retries)
    /\ \A i \in DOMAIN hookCalls : hookCalls[i].attemptNumber = i
    /\ (pc \in {"shouldRetry", "delay"} \/ exit \in {"noRetry", "shouldRetry", "timeLeft", "listener", "throwIfAborted"}) =>
          /\ Len(hookEnds) = Len(hookCalls)
          /\ Len(hookEnds) = Len(thrown)
          /\ Last(hookEnds) = "return"
    /\ Len(shouldCalls) <= Len(hookEnds)
    /\ Len(timers) <= Len(hookEnds)
    /\ \A k \in DOMAIN calls :
          k >= 2 => (k - 1 \in DOMAIN hookEnds /\ hookEnds[k - 1] = "return")

C10_Witness ==
    /\ exit = "noRetry"
    /\ mergedOptions.retries = 2
    /\ Len(calls) = 3
    /\ hookEnds = <<"return", "return", "return">>
    /\ Len(shouldCalls) = 2

\* C11: for every failed attempt k the context given to onFailedAttempt has
\* attemptNumber = k and the classified error of attempt k, and shouldRetry
\* is given the same context; retriesLeft starts at retries, is never
\* negative, is one less (in floating-point arithmetic, where Infinity - 1
\* is Infinity) at each next failed attempt, and is 0 exactly on the last
\* allowed attempt.
C11_ContextCountsRetriesLeft ==
    /\ \A i \in DOMAIN hookCalls :
          /\ hookCalls[i].attemptNumber = i
          /\ hookCalls[i].error =
                IF thrown[i] = "value" THEN CaughtError(reason)
                ELSE CaughtError(CHOOSE v \in ThrownValues(i, thrown[i]) : TRUE)
          /\ hookCalls[i].retriesLeft >= 0
          /\ i = 1 => hookCalls[i].retriesLeft = mergedOptions.retries
          /\ i > 1 => hookCalls[i].retriesLeft = Minus(hookCalls[i - 1].retriesLeft, 1)
          /\ hookCalls[i].retriesLeft = 0 <=> i = mergedOptions.retries + 1
    /\ \A j \in DOMAIN shouldCalls :
          /\ shouldCalls[j].attemptNumber \in DOMAIN hookCalls
          /\ shouldCalls[j] = hookCalls[shouldCalls[j].attemptNumber]

C11_Witness ==
    /\ mergedOptions.retries = 2
    /\ Len(hookCalls) = 3
    /\ Len(shouldCalls) = 2
    /\ hookCalls[3].retriesLeft = 0
    /\ shouldCalls[2] = hookCalls[2]

\* C12: with a negative retries the run is rejected with the configuration
\* error by the call itself: input is never invoked, no hook is called and
\* no timer is created, whatever the signal's state.
C12_NegativeRetriesRejectedFirst ==
    mergedOptions.retries < 0 =>
        /\ pc \in {"idle", "done"}
        /\ pc = "done" => (exit = "validate" /\ outcome = Rejected(RetriesError))
        /\ calls = <<>>
        /\ hookCalls = <<>>
        /\ shouldCalls = <<>>
        /\ timers = <<>>
        /\ ~timer.pending

C12_Witness ==
    /\ mergedOptions.retries < 0
    /\ aborted
    /\ outcome = Rejected(RetriesError)

\* C13: when the signal is already aborted at the call (and retries is
\* valid), the call itself rejects the run with the signal's reason: input
\* is never invoked and no hook is called.
C13_AbortedBeforeCallRejectsFirst ==
    (mergedOptions.retries >= 0 /\ aborted /\ calls = <<>>) =>
        /\ pc \in {"idle", "done"}
        /\ pc = "done" => (exit = "preAborted" /\ outcome = Rejected(reason))
        /\ hookCalls = <<>>
        /\ shouldCalls = <<>>
        /\ timers = <<>>

C13_Witness ==
    /\ exit = "preAborted"
    /\ outcome = Rejected(reason)
    /\ calls = <<>>
    /\ hookCalls = <<>>

\* the run was ended by an abort of the signal
EndedByAbort ==
    \/ exit \in {"preAborted", "listener", "throwIfAborted"}
    \/ (exit \in {"fatal", "noRetry"} /\ Last(thrown) = "value")

\* C14: a run ended by an abort of the signal is rejected with an AbortError
\* made from the signal (cause = signal.reason, signal = the signal), not
\* with the raw reason.
C14_AbortRejectsWithAbortErrorFromSignal ==
    EndedByAbort => outcome = Rejected(fromSignal(reason))

\* C15: an abort of the signal while the delay timer is pending clears the
\* timer and rejects the run in the same step, before the timer is due, and
\* input is never invoked afterwards.
C15_AbortDuringDelayRejectsAtOnce ==
    [][(pc = "delay" /\ timer.pending /\ ~aborted /\ aborted') =>
          /\ pc' = "done"
          /\ ~timer'.pending
          /\ outcome' = Rejected(reason')
          /\ now' = now
          /\ now' < timer.due
          /\ calls' = calls]_vars
    /\ [](exit = "listener" => (pc = "done" /\ Len(calls) = Len(thrown) /\ ~timer.pending))

C15_Witness ==
    /\ exit = "listener"
    /\ outcome = Rejected(reason)
    /\ ~timer.pending
    /\ now < timer.due
    /\ Len(calls) = 2

\* this step is the normal return of the attempt of input in flight
InputReturnsNormally == pc = "input" /\ thrown' = Append(thrown, "value")

\* C16 as stated: a successful attempt resolves the run with its value, also
\* when the signal was aborted while the attempt was in flight.
C16_ResolutionWinsOverAbort ==
    (thrown /= <<>> /\ Last(thrown) = "value") =>
        outcome = [state |-> "fulfilled", value |-> Returned(Len(thrown))]

\* C16 as amended: when an attempt returns normally the signal is checked
\* again before the value is returned: the run resolves with the attempt's
\* value if the signal is not aborted at that moment and does not resolve
\* if it is; an abort after the resolution does not change the outcome.
C16_ResolutionWinsUnlessAbortedInFlight ==
    /\ [][InputReturnsNormally =>
             IF mergedOptions.signal /\ aborted
             THEN outcome'.state /= "fulfilled"
             ELSE /\ pc' = "done"
                  /\ outcome' = [state |-> "fulfilled", value |-> Returned(attemptNumber)]]_vars
    /\ [][outcome.state = "fulfilled" => outcome' = outcome]_vars

C16_Witness ==
    /\ thrown = <<"Error", "value">>
    /\ aborted
    /\ outcome = Rejected(reason)

\* C17: when the signal is aborted while an attempt is in flight and the
\* attempt then returns normally, the run does not fulfil; from then on
\* input is never invoked again and the run can only settle as rejected.
C17_AbortInFlightRejectsDespiteSuccess ==
    /\ [][(InputReturnsNormally /\ aborted) =>
             (outcome'.state /= "fulfilled" /\ exit' /= "return")]_vars
    /\ []((thrown /= <<>> /\ Last(thrown) = "value" /\ exit /= "return") =>
             /\ outcome.state /= "fulfilled"
             /\ Len(calls) = Len(thrown)
             /\ pc = "done" => outcome.state = "rejected")

C17_Witness ==
    /\ thrown = <<"Error", "Error", "value">>
    /\ aborted
    /\ pc = "done"
    /\ exit = "throwIfAborted"
    /\ Len(calls) = 3
    /\ mergedOptions.retries = Infinity

\* the stop/continue decision of the latest failed attempt has been reached
\* (onFailedAttempt returned) with the elapsed time currentTime - startTime
DecisionReached ==
    /\ hookEnds /= <<>>
    /\ Len(hookEnds) = Len(hookCalls)
    /\ Last(hookEnds) = "return"

\* C18: when the decision after a retriable failure of attempt k finds
\* elapsed >= maxRetryTime the run is settled: rejected with the error of
\* attempt k, with no attempt after k, no shouldRetry call and no timer for
\* k; with maxRetryTime = 0 input is invoked at most once and no timer is
\* ever started.
C18_TimeBudgetSpentStops ==
    /\ (DecisionReached /\ currentTime - startTime >= mergedOptions.maxRetryTime) =>
          LET k == Last(hookCalls).attemptNumber IN
          /\ pc = "done"
          /\ exit = "noRetry"
          /\ outcome = Rejected(Last(hookCalls).error)
          /\ Len(calls) = k
          /\ NoneFor(shouldCalls, k)
          /\ NoneFor(timers, k)
          /\ ~timer.pending
    /\ mergedOptions.maxRetryTime = 0 =>
          /\ Len(calls) <= 1
          /\ timers = <<>>
          /\ shouldCalls = <<>>
          /\ DecisionReached => (pc = "done" /\ Len(calls) = 1)

C18_Witness ==
    /\ mergedOptions.maxRetryTime = 1
    /\ mergedOptions.retries = Infinity
    /\ DecisionReached
    /\ currentTime - startTime >= 1
    /\ Len(calls) = 2
    /\ Len(timers) = 1
    /\ exit = "noRetry"

\* --------------------------------------------- calculateDelay on its own
\* the options calculateDelay reads: factors -1, 0, 1/2, 1, 2, ...
DelayOptions ==
    [factor : {<<n, 1>> : n \in -1 .. MaxFactor} \cup {<<1, 2>>},
     minTimeout : 0 .. MaxMinTimeout,
     maxTimeout : (0 .. MaxMaxTimeout) \cup {Infinity},
     randomize : BOOLEAN]

InitDelay ==
    /\ input = Operation
    /\ other = NoRun
    /\ mergedOptions \in DelayOptions
    /\ pc = "calculateDelay"
    /\ exit = "none"
    /\ attemptNumber = 0
    /\ startTime = 0
    /\ currentTime = 0
    /\ error = None
    /\ context = NoContext
    /\ result = None
    /\ outcome = Pending
    /\ now = 0
    /\ aborted = FALSE
    /\ reason = None
    /\ timer = NoTimer
    /\ listeners = 0
    /\ calls = <<>>
    /\ thrown = <<>>
    /\ hookCalls = <<>>
    /\ hookEnds = <<>>
    /\ shouldCalls = <<>>
    /\ verdicts = <<>>
    /\ timers = <<>>

\* calculateDelay(attemptNumber, mergedOptions) for the next attempt number;
\* timers holds the delay it returned
ComputeDelay ==
    /\ pc = "calculateDelay"
    /\ attemptNumber < MaxDelayAttempts
    /\ attemptNumber' = attemptNumber + 1
    /\ \E rnd \in IF mergedOptions.randomize THEN 0 .. (RandomSteps - 1) ELSE {0} :
          timers' = <<[attempt |-> attemptNumber',
                       delay |-> calculateDelay(attemptNumber', mergedOptions, rnd)]>>
    /\ UNCHANGED <<input, other, mergedOptions, pc, exit, startTime, currentTime, error, context, result,
                   outcome, now, aborted, reason, timer, listeners, calls, thrown, hookCalls,
                   hookEnds, shouldCalls, verdicts>>

NextDelay == ComputeDelay

SpecDelay == InitDelay /\ [][NextDelay]_vars

\* m * f^(i-1) as the fraction Numer(m, f, i) / Denom(f, i)
Numer(m, f, i) == m * Pow(f[1], i - 1)

Denom(f, i) == Pow(f[2], i - 1)

\* r is the integer nearest to n/d (d > 0), the upper one on a tie
Nearest(r, n, d) == 2 * n - d < 2 * r * d /\ 2 * r * d <= 2 * n + d

\* C19 as stated: without randomize and with a non-negative integer factor f
\* the delay after failed attempt i is min(m * f^(i-1), maxTimeout) exactly,
\* for every minTimeout m >= 0.
C19_DelayIsMinTimeoutTimesFactorPower ==
    \A t \in DOMAIN timers :
        (~mergedOptions.randomize /\ mergedOptions.factor[2] = 1 /\ mergedOptions.factor[1] >= 0) =>
            timers[t].delay =
                Min(Numer(mergedOptions.minTimeout, mergedOptions.factor, timers[t].attempt),
                    mergedOptions.maxTimeout)

\* C19 as amended: without randomize the delay after failed attempt i is
\* min(round(max(m, 1) * f^(i-1)), maxTimeout). For an integer factor that is
\* min(max(m, 1) * f^(i-1), maxTimeout) exactly; in general the delay is
\* never above maxTimeout and, below maxTimeout, it is the integer nearest
\* to max(m, 1) * f^(i-1).
C19_DelayIsFlooredBaseTimesFactorPower ==
    \A t \in DOMAIN timers :
        ~mergedOptions.randomize =>
            LET o == mergedOptions
                i == timers[t].attempt
                delay == timers[t].delay
                d == Denom(o.factor, i)
                n == Numer(IF o.minTimeout >= 1 THEN o.minTimeout ELSE 1, o.factor, i)
            IN  /\ d = 1 => delay = (IF o.maxTimeout <= n THEN o.maxTimeout ELSE n)
                /\ delay <= o.maxTimeout
                /\ delay < o.maxTimeout => Nearest(delay, n, d)
                /\ delay = o.maxTimeout => 2 * n + d >= 2 * o.maxTimeout * d

C19_Witness ==
    /\ pc = "calculateDelay"
    /\ ~mergedOptions.randomize
    /\ mergedOptions.minTimeout = 0
    /\ mergedOptions.factor = <<2, 1>>
    /\ mergedOptions.maxTimeout = Infinity
    /\ timers = <<[attempt |-> 3, delay |-> 4]>>

\* C20: without randomize and with maxTimeout >= minTimeout the delay is at
\* least minTimeout for every attempt, whatever the factor.
C20_DelayNeverBelowMinTimeout ==
    \A t \in DOMAIN timers :
        (~mergedOptions.randomize /\ mergedOptions.maxTimeout >= mergedOptions.minTimeout) =>
            timers[t].delay >= mergedOptions.minTimeout

\* C21: every delay calculateDelay returns is at most maxTimeout, for every
\* attempt number, factor and minTimeout, with and without randomize.
C21_DelayNeverAboveMaxTimeout ==
    \A t \in DOMAIN timers : timers[t].delay <= mergedOptions.maxTimeout

\* the clamp acts: 2 * 3 * 3^2 / 2 = 27 or more is cut down to 4
C21_Witness ==
    /\ pc = "calculateDelay"
    /\ mergedOptions.randomize
    /\ mergedOptions.minTimeout = 3
    /\ mergedOptions.factor = <<3, 1>>
    /\ mergedOptions.maxTimeout = 4
    /\ timers = <<[attempt |-> 3, delay |-> 4]>>

\* the case of C22: randomize with factor 1 and no maxTimeout
C22_Pre ==
    /\ mergedOptions.randomize
    /\ mergedOptions.factor = <<1, 1>>
    /\ mergedOptions.maxTimeout = Infinity

\* the next computation can return a
CanCompute(a) == ENABLED (ComputeDelay /\ Last(timers').delay = a)

\* C22 as stated: with randomize, factor 1 and no maxTimeout every delay
\* lies between minTimeout and 2 * minTimeout.
C22_JitterBetweenMinTimeoutAndTwice ==
    C22_Pre =>
        \A t \in DOMAIN timers :
            /\ mergedOptions.minTimeout <= timers[t].delay
            /\ timers[t].delay <= 2 * mergedOptions.minTimeout

\* C22 as amended: with randomize, factor 1 and no maxTimeout every delay
\* lies between max(minTimeout, 1) and 2 * max(minTimeout, 1), and at every
\* computation, whatever was drawn before, at least two distinct delays in
\* that range can be returned for the same attempt number.
C22_JitterBetweenFlooredBaseAndTwice ==
    C22_Pre =>
        LET base == IF mergedOptions.minTimeout >= 1 THEN mergedOptions.minTimeout ELSE 1 IN
        /\ \A t \in DOMAIN timers : base <= timers[t].delay /\ timers[t].delay <= 2 * base
        /\ attemptNumber < MaxDelayAttempts =>
              \E a, b \in base .. 2 * base : a /= b /\ CanCompute(a) /\ CanCompute(b)

\* a second computation of one run returned the other delay
C22_Witness ==
    /\ C22_Pre
    /\ mergedOptions.minTimeout = 0
    /\ attemptNumber = 2
    /\ timers = <<[attempt |-> 2, delay |-> 2]>>
    /\ CanCompute(1)

\* C23: whenever a delay timer is started, the time budget left at the
\* decision, maxRetryTime - (currentTime - startTime), is positive and the
\* timer's duration is at most that.
C23_TimerWithinTimeLeft ==
    [][timers' /= timers =>
          LET timeLeft == Minus(mergedOptions.maxRetryTime, currentTime - startTime) IN
          /\ timeLeft > 0
          /\ Last(timers').delay <= timeLeft
          /\ timer'.pending /\ timer'.delay = Last(timers').delay]_vars

\* a delay of 2 cut down to the 1 that is left of the budget
C23_Witness ==
    /\ ~mergedOptions.randomize
    /\ mergedOptions.minTimeout = 2
    /\ mergedOptions.maxTimeout = Infinity
    /\ mergedOptions.maxRetryTime = 1
    /\ timer.pending
    /\ timers = <<[attempt |-> 1, delay |-> 1]>>

\* new TypeError('Non-error was thrown ...') for what input threw in attempt n
WrapperFor(n) == NonErrorWrapper(Value("NonError", "foo", "input", n, "none"))

\* C24: when input throws a non-Error value, onFailedAttempt and shouldRetry
\* receive the wrapper error as context.error, a run that stops on that
\* failure rejects with the wrapper, and the raw value is never handed to a
\* hook nor rejected to the caller.
C24_NonErrorIsWrapped ==
    [](/\ \A i \in DOMAIN thrown :
             thrown[i] = "NonError" =>
                 /\ \E j \in DOMAIN hookCalls :
                       hookCalls[j] = createRetryContext(WrapperFor(i), i, mergedOptions.retries)
                 /\ \A j \in DOMAIN shouldCalls :
                       shouldCalls[j].attemptNumber = i => shouldCalls[j].error = WrapperFor(i)
       /\ \A j \in DOMAIN hookCalls : hookCalls[j].error.kind /= "NonError"
       /\ \A j \in DOMAIN shouldCalls : shouldCalls[j].error.kind /= "NonError"
       /\ (pc = "done" /\ exit \in {"noRetry", "timeLeft"} /\ thrown /= <<>>
               /\ Last(thrown) = "NonError") =>
             outcome = Rejected(WrapperFor(Len(thrown)))
       /\ ~(outcome.value.kind = "NonError" /\ outcome.value.from = "input"))

C24_Witness ==
    /\ pc = "done"
    /\ exit = "noRetry"
    /\ thrown = <<"Error", "NonError">>
    /\ Len(shouldCalls) = 1
    /\ outcome = Rejected(WrapperFor(2))

\* ------------------------------------------------------------ makeRetriable
\* the argument lists the function makeRetriable returned is called with
ArgLists == {<<>>, <<"a", 1>>}

\* the options given to makeRetriable
RetriableOptions ==
    {o \in Options :
        /\ o.retries >= 0
        /\ o.factor = <<2, 1>>
        /\ o.minTimeout = 0
        /\ o.maxTimeout = 1
        /\ o.maxRetryTime = Infinity
        /\ ~o.randomize}

\* makeRetriable(fn, options)(...args): pRetry(() => fn(...args), options)
InitRetriable ==
    /\ input \in {[kind |-> "makeRetriable", args |-> a] : a \in ArgLists}
    /\ other = NoRun
    /\ mergedOptions \in RetriableOptions
    /\ pc = "idle"
    /\ exit = "none"
    /\ attemptNumber = 0
    /\ startTime = 0
    /\ currentTime = 0
    /\ error = None
    /\ context = NoContext
    /\ result = None
    /\ outcome = Pending
    /\ now = 0
    /\ aborted = FALSE
    /\ reason = None
    /\ timer = NoTimer
    /\ listeners = 0
    /\ calls = <<>>
    /\ thrown = <<>>
    /\ hookCalls = <<>>
    /\ hookEnds = <<>>
    /\ shouldCalls = <<>>
    /\ verdicts = <<>>
    /\ timers = <<>>

SpecRetriable == InitRetriable /\ [][Next]_vars

\* C25: the function makeRetriable(fn, options) returns, called with args,
\* is one run of pRetry with those options: every attempt calls fn with
\* exactly args, there are at most retries + 1 attempts, each started only
\* after the one before has failed, and the run fulfils with what fn
\* returned in the last attempt.
C25_RetriableForwardsArguments ==
    input.kind = "makeRetriable" =>
        /\ \A i \in DOMAIN calls : calls[i] = input.args
        /\ Len(calls) <= mergedOptions.retries + 1
        /\ Len(calls) = attemptNumber
        /\ Len(thrown) \in {Len(calls) - 1, Len(calls)}
        /\ \A i \in DOMAIN thrown : thrown[i] = "value" => i = Len(calls)
        /\ outcome.state = "fulfilled" =>
              (Last(thrown) = "value" /\ outcome.value = Returned(Len(calls)))

C25_Witness ==
    /\ input = [kind |-> "makeRetriable", args |-> <<"a", 1>>]
    /\ calls = << <<"a", 1>>, <<"a", 1>> >>
    /\ outcome = [state |-> "fulfilled", value |-> Returned(2)]

\* ------------------------------------------------------------- sequencing
\* invocations of input, of onFailedAttempt and of shouldRetry not yet ended
InputsInFlight == Len(calls) - Len(thrown)

HooksInFlight == Len(hookCalls) - Len(hookEnds)

ShouldRetrysInFlight == Len(shouldCalls) - Len(verdicts)

DelaysInFlight == IF timer.pending THEN 1 ELSE 0

\* C26: at any time at most one of an invocation of input, a call of
\* onFailedAttempt, a call of shouldRetry and a delay is under way, so no
\* hook runs while input is in flight; and attempt k+1 starts only when the
\* invocation, the onFailedAttempt call and the shouldRetry call of attempt k
\* have ended and no delay is pending.
C26_AttemptsStrictlySequential ==
    /\ [](/\ InputsInFlight \in {0, 1}
          /\ HooksInFlight \in {0, 1}
          /\ ShouldRetrysInFlight \in {0, 1}
          /\ InputsInFlight + HooksInFlight + ShouldRetrysInFlight + DelaysInFlight <= 1)
    /\ [][Len(calls') > Len(calls) =>
             LET k == Len(calls) IN
             /\ Len(calls') = k + 1
             /\ Len(thrown') = k
             /\ Len(hookCalls') = k /\ Len(hookEnds') = k
             /\ Len(shouldCalls') = k /\ Len(verdicts') = k
             /\ ~timer'.pending]_vars

\* attempt 3 under way after two failed attempts, each followed by a delay
C26_Witness ==
    /\ pc = "input"
    /\ Len(calls) = 3
    /\ Len(thrown) = 2
    /\ Len(timers) = 2
    /\ mergedOptions.onFailedAttempt = "custom"

\* C27: a delay timer is started only when no timer of the run is pending,
\* a timer is pending only during the delay it was created for, and when
\* the run has settled, by whatever path, no timer is pending.
C27_NoTimerOutlivesTheRun ==
    /\ []((pc = "done" => ~timer.pending) /\ (timer.pending => pc = "delay"))
    /\ [][timers' /= timers =>
             (~timer.pending /\ timer'.pending /\ Len(timers') = Len(timers) + 1)]_vars

\* the second delay was cut short by an abort, whose listener cleared the timer
C27_Witness ==
    /\ pc = "done"
    /\ exit = "listener"
    /\ Len(timers) = 2
    /\ now < timer.due
    /\ ~timer.pending

\* C28: the run is settled exactly when the function has ended; a fulfilled
\* run carries the value input returned in its last attempt and a rejected
\* run one thrown value; once settled, the outcome never changes, not even
\* when the signal is aborted afterwards, and input, onFailedAttempt,
\* shouldRetry and setTimeout are never called again.
C28_SettlesOnceAndForAll ==
    /\ [](/\ (pc = "done") <=> (outcome.state /= "pending")
          /\ outcome.state \in {"pending", "fulfilled", "rejected"}
          /\ outcome.state = "fulfilled" =>
                (Last(thrown) = "value" /\ outcome.value = Returned(Len(calls)))
          /\ outcome.state = "rejected" => outcome.value /= None)
    /\ [][outcome.state /= "pending" =>
             /\ outcome' = outcome
             /\ pc' = "done"
             /\ calls' = calls
             /\ hookCalls' = hookCalls
             /\ shouldCalls' = shouldCalls
             /\ timers' = timers
             /\ ~timer'.pending]_vars

\* the signal is aborted after the run fulfilled; the listener left over
\* from the delay before attempt 2 has run without effect
C28_Witness ==
    /\ outcome = [state |-> "fulfilled", value |-> Returned(2)]
    /\ aborted
    /\ Len(timers) = 1
    /\ listeners = 0

\* C29: with retries = Infinity neither the while condition nor the
\* retry-count test ends the run: it never ends at the statement after the
\* loop, a "do not retry" exit is due to the time budget or to shouldRetry
\* returning false, and an operation that fails retriably k-1 times and then
\* throws an AbortError has been invoked exactly k times when the run
\* rejects with that AbortError.
C29_InfiniteRetriesNeverExhausted ==
    [](mergedOptions.retries = Infinity =>
           /\ exit \notin {"validate", "exhausted"}
           /\ exit = "noRetry" =>
                 \/ currentTime - startTime >= mergedOptions.maxRetryTime
                 \/ (verdicts /= <<>> /\ Len(verdicts) = Len(hookCalls) /\ Last(verdicts) = "false")
           /\ context.retriesLeft \in {0, Infinity}
           /\ \A j \in DOMAIN hookCalls : hookCalls[j].retriesLeft = Infinity
           /\ (thrown /= <<>> /\ Last(thrown) = "AbortError") =>
                 LET k == Len(thrown) IN
                 /\ \A i \in 1 .. (k - 1) : thrown[i] \in Retriable
                 /\ Len(calls) = k
                 /\ pc = "done" /\ exit = "fatal"
                 /\ outcome.state = "rejected"
                 /\ outcome.value \in Throwables(k) /\ IsAbortError(outcome.value))

C29_Witness ==
    /\ mergedOptions.retries = Infinity
    /\ thrown = <<"Error", "NonError", "AbortError">>
    /\ calls = <<1, 2, 3>>
    /\ pc = "done"

\* ------------------------------------------------------------- two runs
\* everything one invocation of pRetry owns: its parameters, its locals,
\* the promise it returned, its timer and the signal it was given
Locals ==
    [input |-> input, mergedOptions |-> mergedOptions, pc |-> pc, exit |-> exit,
     attemptNumber |-> attemptNumber, startTime |-> startTime, currentTime |-> currentTime,
     error |-> error, context |-> context, result |-> result, outcome |-> outcome,
     aborted |-> aborted, reason |-> reason, timer |-> timer, listeners |-> listeners,
     calls |-> calls, thrown |-> thrown, hookCalls |-> hookCalls, hookEnds |-> hookEnds,
     shouldCalls |-> shouldCalls, verdicts |-> verdicts, timers |-> timers]

\* the locals of an invocation of pRetry(input, o) not yet started
FreshRun(o) ==
    [input |-> Operation, mergedOptions |-> o, pc |-> "idle", exit |-> "none",
     attemptNumber |-> 0, startTime |-> 0, currentTime |-> 0,
     error |-> None, context |-> NoContext, result |-> None, outcome |-> Pending,
     aborted |-> FALSE, reason |-> None, timer |-> NoTimer, listeners |-> 0,
     calls |-> <<>>, thrown |-> <<>>, hookCalls |-> <<>>, hookEnds |-> <<>>,
     shouldCalls |-> <<>>, verdicts |-> <<>>, timers |-> <<>>]

\* the options of the two runs: both hooks and a signal of its own for each,
\* one retry for the first run and none for the second
TwoOptions ==
    {o \in RetriableOptions : o.retries = 1 /\ o.signal /\ o.onFailedAttempt = "custom"}

\* this run starts as r
StartsAs(r) ==
    /\ input = r.input
    /\ mergedOptions = r.mergedOptions
    /\ pc = r.pc
    /\ exit = r.exit
    /\ attemptNumber = r.attemptNumber
    /\ startTime = r.startTime
    /\ currentTime = r.currentTime
    /\ error = r.error
    /\ context = r.context
    /\ result = r.result
    /\ outcome = r.outcome
    /\ aborted = r.aborted
    /\ reason = r.reason
    /\ timer = r.timer
    /\ listeners = r.listeners
    /\ calls = r.calls
    /\ thrown = r.thrown
    /\ hookCalls = r.hookCalls
    /\ hookEnds = r.hookEnds
    /\ shouldCalls = r.shouldCalls
    /\ verdicts = r.verdicts
    /\ timers = r.timers

\* the run suspended with locals r goes on from them
Resumes(r) ==
    /\ input' = r.input
    /\ mergedOptions' = r.mergedOptions
    /\ pc' = r.pc
    /\ exit' = r.exit
    /\ attemptNumber' = r.attemptNumber
    /\ startTime' = r.startTime
    /\ currentTime' = r.currentTime
    /\ error' = r.error
    /\ context' = r.context
    /\ result' = r.result
    /\ outcome' = r.outcome
    /\ aborted' = r.aborted
    /\ reason' = r.reason
    /\ timer' = r.timer
    /\ listeners' = r.listeners
    /\ calls' = r.calls
    /\ thrown' = r.thrown
    /\ hookCalls' = r.hookCalls
    /\ hookEnds' = r.hookEnds
    /\ shouldCalls' = r.shouldCalls
    /\ verdicts' = r.verdicts
    /\ timers' = r.timers

InitTwo ==
    /\ other \in {FreshRun([o EXCEPT !.retries = 0]) : o \in TwoOptions}
    /\ \E o \in TwoOptions : StartsAs(FreshRun(o))
    /\ now = 0

Switch_SharedAttemptNumber ==
    /\ other /= NoRun
    /\ other' = Locals
    /\ Resumes([other EXCEPT !.attemptNumber = attemptNumber])
    /\ UNCHANGED now

\* the event loop turns from one run, suspended at an await, to the other:
\* each invocation of the async function has its own locals
Switch ==
    /\ other /= NoRun
    /\ other' = Locals
    /\ Resumes(other)
    /\ UNCHANGED now

NextTwo ==
    \/ Next
    \/ Switch

SpecTwo == InitTwo /\ [][NextTwo]_vars

\* the run with locals r behaves as a run on its own does: its attempt
\* numbers count 1, 2, ... from its own counter, its clock readings are its
\* own, its timer is pending only during its own delay, its promise settles
\* when it ends, and while its own signal is not aborted no abort exit is
\* taken and no abort reason reaches it
RunsAlone(r) ==
    /\ \A i \in DOMAIN r.calls : r.calls[i] = i
    /\ r.attemptNumber = Len(r.calls)
    /\ Len(r.calls) <= r.mergedOptions.retries + 1
    /\ r.startTime <= now /\ r.currentTime <= now
    /\ r.currentTime /= 0 => r.startTime <= r.currentTime
    /\ r.timer.pending => (r.pc = "delay" /\ r.timer.delay = Last(r.timers).delay)
    /\ (r.pc = "done") <=> (r.outcome.state /= "pending")
    /\ r.outcome.state = "fulfilled" => r.outcome.value = Returned(Len(r.calls))
    /\ ~r.aborted =>
          /\ r.exit \notin {"preAborted", "listener", "throwIfAborted"}
          /\ r.reason = None
          /\ r.outcome.value.from /= "signal"
          /\ \A j \in DOMAIN r.hookCalls : r.hookCalls[j].error.from /= "signal"

\* C30: of two runs of pRetry with a signal each, interleaved at their
\* awaits, each behaves as a run on its own does, a step of one run (an
\* abort of its signal included) leaves everything the other run owns as it
\* was, and a run that is resumed finds everything it owns as it left it.
C30_ConcurrentRunsIsolated ==
    /\ [](RunsAlone(Locals) /\ RunsAlone(other))
    /\ [][\/ other' = other
          \/ (other' = Locals /\ Locals' = other)]_vars

\* the first run was aborted during its delay; the second, started later
\* and never aborted, has fulfilled
C30_Witness ==
    /\ other /= NoRun
    /\ other.exit = "listener"
    /\ other.aborted
    /\ other.attemptNumber = 1
    /\ ~aborted
    /\ startTime = 1
    /\ outcome = [state |-> "fulfilled", value |-> Returned(1)]

\* ------------------------------------------------- cancellation and hooks
\* C31: when the signal is aborted while onFailedAttempt is awaited, the run
\* rejects with the abort as soon as the hook returns, and shouldRetry is
\* not invoked; when it is aborted while onFailedAttempt or shouldRetry is
\* awaited, no delay timer is started afterwards.
C31_AbortCheckedAfterEveryAwait ==
    [][/\ (pc = "onFailedAttempt" /\ aborted /\ hookEnds' = Append(hookEnds, "return")) =>
             (shouldCalls' = shouldCalls /\ outcome' = Rejected(reason))
       /\ (pc \in {"onFailedAttempt", "shouldRetry"} /\ aborted) => timers' = timers]_vars

\* C32: the abort reason the engine's own checks throw is never the error of
\* a retry context: neither onFailedAttempt nor shouldRetry is called for it.
C32_AbortNeverPresentedToHooks ==
    /\ \A j \in DOMAIN hookCalls :
          hookCalls[j].error.from /= "signal" /\ hookCalls[j].error.wrapped /= "signal"
    /\ \A j \in DOMAIN shouldCalls :
          shouldCalls[j].error.from /= "signal" /\ shouldCalls[j].error.wrapped /= "signal"
    /\ context.error.from /= "signal" /\ context.error.wrapped /= "signal"

\* C33: an attempt after the first starts no later than maxRetryTime after
\* the call began.
C33_NoAttemptAfterTimeBudget ==
    [][(Len(calls') > Len(calls) /\ Len(calls) >= 1) =>
          now' - startTime <= mergedOptions.maxRetryTime]_vars

\* C34: with retries >= 0 the statement after the loop is never reached: no
\* run ends with 'Retry attempts exhausted without throwing an error.', and
\* once the last allowed attempt has failed the run is either awaiting its
\* onFailedAttempt call or already rejected from inside the loop.
C34_CodeAfterLoopUnreachable ==
    [](mergedOptions.retries >= 0 =>
           /\ exit /= "exhausted"
           /\ outcome.value /= ExhaustedError
           /\ (Len(thrown) = mergedOptions.retries + 1 /\ Last(thrown) /= "value") =>
                 (pc \in {"onFailedAttempt", "done"} /\ Len(calls) = Len(thrown)))

C34_Witness ==
    /\ mergedOptions.retries = 0
    /\ mergedOptions.onFailedAttempt = "custom"
    /\ thrown = <<"NetworkError">>
    /\ pc = "done"
    /\ exit = "noRetry"

\* this step ends the await of shouldRetry with true and starts no timer
\* although time is left: the clamped delay is 0
ZeroDelayStep ==
    /\ pc = "shouldRetry"
    /\ verdicts' = Append(verdicts, "true")
    /\ timers' = timers
    /\ Minus(mergedOptions.maxRetryTime, currentTime - startTime) > 0

\* this step is the timer of the current delay firing
TimerFiresStep == pc = "delay" /\ timer.pending /\ ~timer'.pending /\ aborted' = aborted

\* C35: when the clamped delay is 0 no timer is created and, in the same
\* step, the run either rejects with the abort reason (signal aborted) or
\* starts the next attempt; when a timer is created the run suspends on it,
\* and the next attempt starts only in the step in which that timer fires
\* with the signal not aborted; a timer firing with the signal aborted
\* rejects the run with the abort reason.
C35_DelayThenRecheckThenNextAttempt ==
    /\ [][ZeroDelayStep =>
             /\ ~timer'.pending /\ pc' /= "delay"
             /\ IF aborted
                THEN outcome' = Rejected(reason) /\ calls' = calls /\ hookCalls' = hookCalls
                ELSE pc' = "input" /\ Len(calls') = Len(calls) + 1]_vars
    /\ [][timers' /= timers => (pc' = "delay" /\ timer'.pending /\ calls' = calls)]_vars
    /\ [][(pc = "delay" /\ calls' /= calls) => (TimerFiresStep /\ ~aborted /\ now' >= timer.due)]_vars
    /\ [][(TimerFiresStep /\ aborted) =>
             (outcome' = Rejected(reason) /\ calls' = calls /\ hookCalls' = hookCalls)]_vars

\* attempt 3 was started straight after the shouldRetry call of attempt 2
C35_Witness ==
    /\ mergedOptions.factor = <<0, 1>>
    /\ pc = "input"
    /\ Len(calls) = 3
    /\ Len(verdicts) = 2
    /\ Len(timers) = 1

\* --------------------------------------------------------------- progress
\* the options of the runs followed to their end
LiveOptions ==
    {o \in Options :
        /\ o.retries >= 0
        /\ o.maxRetryTime /= 0
        /\ o.factor = <<2, 1>>
        /\ o.minTimeout = 0
        /\ o.maxTimeout = 1
        /\ ~o.randomize}

InitLive ==
    /\ other = NoRun
    /\ now = 0
    /\ \E o \in LiveOptions : StartsAs(FreshRun(o))

\* pRetry is called; every call of input, of onFailedAttempt and of
\* shouldRetry returns or throws; every timer started fires; the clock
\* advances
Fairness ==
    /\ WF_vars(Call)
    /\ WF_vars(InputReturns \/ InputThrows)
    /\ WF_vars(OnFailedAttemptReturns \/ OnFailedAttemptThrows)
    /\ WF_vars(ShouldRetryReturns \/ ShouldRetryThrows)
    /\ WF_vars(TimerFires)
    /\ WF_vars(Tick)

SpecLive == InitLive /\ [][Next]_vars /\ Fairness

\* C36: a run whose retries or whose maxRetryTime is finite eventually
\* settles, provided the operation and the hooks return, the timers fire
\* and the clock advances.
C36_FiniteRunsSettle ==
    (mergedOptions.retries /= Infinity \/ mergedOptions.maxRetryTime /= Infinity) =>
        <>(pc = "done" /\ outcome.state /= "pending")

\* unbounded retries ended by the time budget at the second failure
C36_Witness ==
    /\ mergedOptions.retries = Infinity
    /\ mergedOptions.maxRetryTime = 1
    /\ ~mergedOptions.signal
    /\ pc = "done"
    /\ exit = "noRetry"
    /\ Len(calls) = 2
    /\ outcome.state = "rejected"

\* C37: once the signal is aborted the operation is not invoked again: no
\* step taken with the signal aborted adds a call of input or resumes the
\* operation, whether the abort came during the operation, a hook or the
\* delay, and the delay that follows such an abort ends at the cancellation
\* check, which rejects the run with the reason.
C37_NoAttemptAfterAbort ==
    [][aborted =>
          /\ calls' = calls
          /\ attemptNumber' = attemptNumber
          /\ pc /= "input" => pc' /= "input"
          /\ (pc = "delay" /\ pc' /= "delay") =>
                (pc' = "done" /\ exit' = "throwIfAborted" /\ outcome' = Rejected(reason))]_vars

\* aborted during a hook: the delay was waited, then line 127 ended the run
C37_Witness ==
    /\ aborted
    /\ pc = "done"
    /\ exit = "throwIfAborted"
    /\ mergedOptions.retries = 2
    /\ calls = <<1>>
    /\ Len(timers) = 1
    /\ ~timer.pending
    /\ outcome = Rejected(reason)

\* C38: shouldRetry is called only when a retry is still possible: each
\* call follows a return of onFailedAttempt at an attempt below retries + 1
\* and with elapsed time below maxRetryTime, so it is called at most
\* retries times when retries is finite and never more often than
\* onFailedAttempt.
C38_ShouldRetryOnlyWhenRetryPossible ==
    /\ [][shouldCalls' /= shouldCalls =>
             /\ shouldCalls' = Append(shouldCalls, context)
             /\ hookEnds' = Append(hookEnds, "return")
             /\ attemptNumber < mergedOptions.retries + 1
             /\ now - startTime < mergedOptions.maxRetryTime]_vars
    /\ [](/\ Len(shouldCalls) <= Len(hookCalls)
          /\ \A i \in DOMAIN shouldCalls :
                /\ shouldCalls[i].attemptNumber <= mergedOptions.retries
                /\ shouldCalls[i].retriesLeft >= 1
          /\ mergedOptions.retries \in 0 .. MaxRetries => Len(shouldCalls) <= mergedOptions.retries)

\* two retries: shouldRetry asked twice, onFailedAttempt called three times
C38_Witness ==
    /\ mergedOptions.retries = 2
    /\ mergedOptions.shouldRetry = "custom"
    /\ Len(shouldCalls) = 2
    /\ Len(hookCalls) = 3
    /\ Len(hookEnds) = 3
    /\ pc = "done"
    /\ exit = "noRetry"

\* C39: a non-Error value thrown by input is a retriable failure: it never
\* ends the run as fatal, onFailedAttempt receives its wrapper, and a run
\* with N retries, no time budget, no signal and the default hooks whose
\* operation throws only such values calls it N + 1 times and rejects with
\* the wrapper of the last one.
C39_NonErrorIsRetriable ==
    [](/\ \A i \in DOMAIN thrown :
             thrown[i] = "NonError" =>
                /\ Len(hookCalls) >= i
                /\ hookCalls[i] = createRetryContext(WrapperFor(i), i, mergedOptions.retries)
                /\ IsTypeError(hookCalls[i].error)
                /\ (i = Len(thrown) /\ pc = "done") => exit /= "fatal"
       /\ (/\ pc = "done"
           /\ thrown /= <<>>
           /\ \A i \in DOMAIN thrown : thrown[i] = "NonError"
           /\ mergedOptions.retries \in 0 .. MaxRetries
           /\ mergedOptions.maxRetryTime = Infinity
           /\ ~mergedOptions.signal
           /\ mergedOptions.onFailedAttempt = "default") =>
             /\ Len(calls) = mergedOptions.retries + 1
             /\ Len(hookCalls) = mergedOptions.retries + 1
             /\ Len(shouldCalls) = mergedOptions.retries
             /\ outcome = Rejected(WrapperFor(mergedOptions.retries + 1)))

C39_Witness ==
    /\ mergedOptions.retries = 2
    /\ mergedOptions.maxRetryTime = Infinity
    /\ ~mergedOptions.signal
    /\ mergedOptions.onFailedAttempt = "default"
    /\ thrown = <<"NonError", "NonError", "NonError">>
    /\ pc = "done"
    /\ outcome = Rejected(WrapperFor(3))

\* C40: the run holds at most one abort listener on the signal, and none
\* outside a delay.
C40_ListenerDoesNotOutliveDelay ==
    /\ listeners <= 1
    /\ pc /= "delay" => listeners = 0

====
